---- MODULE Spec2Model ----
(***************************************************************************)
(* A model of West.py: the four-player partnership trick-taking game.      *)
(* Cards are heap objects in the program; here a card is identified by its *)
(* (rank, suit) pair and its two mutable fields live in the functions      *)
(* owner and ato.  The deck is scaled down to NumRanks ranks per suit, so  *)
(* a hand has NumRanks cards and a match has NumRanks rounds.              *)
(***************************************************************************)
EXTENDS Integers, Sequences, FiniteSets, TLC

\* ---------------------------------------------------------------- bounds
\* ranks per suit in the scaled deck (13 in the program)
NumRanks == 4
\* the shuffles explored are those of seeds 0..MaxSeed
MaxSeed == 299

\* ---------------------------------------------------------------- cards
HEARTS == "H"
DIAMONDS == "D"
SPADES == "S"
CLUBS == "C"

\* suits in the order get_deck enumerates them
SuitOrder == <<HEARTS, DIAMONDS, SPADES, CLUBS>>
Suits == {HEARTS, DIAMONDS, SPADES, CLUBS}

\* range(2, 11) as strings, then the four face ranks
NumericRanks == <<"2", "3", "4", "5", "6", "7", "8", "9", "10">>
FaceRanks == <<"J", "Q", "K", "A">>

\* the ranks of the scaled deck: the highest NumRanks - 1 numeric ranks
\* that precede the faces, followed by the Jack
DeckRanks == [i \in 1..NumRanks |->
                (NumericRanks \o FaceRanks)[Len(NumericRanks) + 1 - NumRanks + i]]

\* k in prepare_cards: the number of cards dealt to each player
HandSize == NumRanks

Card(rank, suit) == [rank |-> rank, suit |-> suit]

\* the absent card (Python's None)
None == [rank |-> "", suit |-> ""]

\* the synthetic card ai_select compares against when it leads
Placeholder == Card("-1", HEARTS)

\* int(rank) for the rank strings that occur
int(s) ==
    CASE s = "-1" -> -1
      [] s = "2" -> 2
      [] s = "3" -> 3
      [] s = "4" -> 4
      [] s = "5" -> 5
      [] s = "6" -> 6
      [] s = "7" -> 7
      [] s = "8" -> 8
      [] s = "9" -> 9
      [] s = "10" -> 10

trans == [J |-> 11, Q |-> 12, K |-> 13, A |-> 14]

\* Card.order
order(card) ==
    IF card.rank \in {"A", "K", "Q", "J"} THEN trans[card.rank] ELSE int(card.rank)

\* the deck get_deck builds before shuffling it
FreshDeck ==
    [n \in 1..(Len(SuitOrder) * NumRanks) |->
        Card(DeckRanks[((n - 1) % NumRanks) + 1], SuitOrder[((n - 1) \div NumRanks) + 1])]

Cards == {FreshDeck[n] : n \in 1..Len(FreshDeck)}

\* ---------------------------------------------------------------- shuffle
\* random.shuffle is a Fisher-Yates pass over the list, driven by the random
\* stream; the stream is modelled by a small congruential generator so that
\* each seed stands for one outcome of the shuffle.
NextRandom(x) == (75 * x + 74) % 65537

Swap(s, i, j) == [s EXCEPT ![i] = s[j], ![j] = s[i]]

RECURSIVE FisherYates(_, _, _)
FisherYates(s, i, x) ==
    IF i < 2 THEN s
    ELSE LET y == NextRandom(x)
             j == (y % i) + 1
         IN  FisherYates(Swap(s, i, j), i - 1, y)

\* get_deck: the 52 cards, shuffled
get_deck(seed) == FisherYates(FreshDeck, Len(FreshDeck), seed + 1)

\* ---------------------------------------------------------------- players
Players == 1..4

\* Player.name is Player.count at construction, Player.turn is name - 1
turn(p) == p - 1

\* prepare_cards: the contiguous block of the deck dealt to player p
deal(d, p) == SubSeq(d, (p - 1) * HandSize + 1, p * HandSize)

\* prepare_teammate without the back-fill: players 1 and 2 keep no teammate
prepare_teammate_no_backfill(p) ==
    CASE p = 1 -> 0
      [] p = 2 -> 0
      [] p = 3 -> 1
      [] p = 4 -> 2

\* prepare_cards: teammates after the back-fill of players 1 and 2
prepare_teammate(p) ==
    CASE p = 1 -> 3
      [] p = 2 -> 4
      [] p = 3 -> 1
      [] p = 4 -> 2

VARIABLES
    deck,        \* West.deck: the shuffled sequence of cards
    cards,       \* Player.cards: the hand of each player, in list order
    owner,       \* Card.owner of every deck card
    ato,         \* Card.ato of every deck card
    teammate,    \* Player.teammate
    t1_points,   \* West.t1_points
    t2_points,   \* West.t2_points
    t_win,       \* start: the player who won the last round
    game_r,      \* start: the round counter
    table,       \* start: the cards played in the current round
    turns,       \* start: the seat the current round begins at
    step,        \* start: how many player_turn calls of the round returned
    pc,          \* start: position in the program
    declared,    \* start: the result printed when the match completes
    played,      \* history: every card placed on a table, in play order
    ret          \* the card returned by the last winner_card call

vars == <<deck, cards, owner, ato, teammate, t1_points, t2_points, t_win,
          game_r, table, turns, step, pc, declared, played, ret>>

\* ---------------------------------------------------------------- hand queries
\* list.pop in place of list.remove: drops the last element whatever c is
remove_last(s, c) == SubSeq(s, 1, Len(s) - 1)

\* list.remove: the list without the first element equal to c
RECURSIVE remove(_, _)
remove(s, c) ==
    IF s = <<>> THEN <<>>
    ELSE IF Head(s) = c THEN Tail(s)
    ELSE <<Head(s)>> \o remove(Tail(s), c)

contains(s, c) == \E i \in 1..Len(s) : s[i] = c

\* sorted(..., key=order): stable insertion of c into the ascending list s
RECURSIVE insert_sorted(_, _)
insert_sorted(s, c) ==
    IF s = <<>> THEN <<c>>
    ELSE IF order(c) < order(Head(s)) THEN <<c>> \o s
    ELSE <<Head(s)>> \o insert_sorted(Tail(s), c)

RECURSIVE sorted(_)
sorted(s) ==
    IF s = <<>> THEN <<>>
    ELSE insert_sorted(sorted(SubSeq(s, 1, Len(s) - 1)), s[Len(s)])

\* Player.get_suit: the hand's cards of one suit, ascending by order
get_suit(hand, suit) == sorted(SelectSeq(hand, LAMBDA c : c.suit = suit))

\* Player.has
has(hand, suit) == \E i \in 1..Len(hand) : hand[i].suit = suit

\* Player.get_card: the hand's card of that rank and suit, or None
get_card(hand, rank, suit) ==
    IF contains(hand, Card(rank, suit)) THEN Card(rank, suit) ELSE None

\* ---------------------------------------------------------------- trick resolver
\* the fields of a card object; the placeholder is no deck card: it is built
\* with ato False and with the acting player as its owner
card_ato(c) == IF c = Placeholder THEN FALSE ELSE ato[c]
card_owner(c, self) == IF c = Placeholder THEN self ELSE owner[c]

\* winner_step without the test that the higher card shares the winner's suit
winner_step_any_suit(w, card) ==
    IF order(card) > order(w) THEN card
    ELSE IF ato[card]
         THEN IF ato[w]
              THEN IF order(card) > order(w) THEN card ELSE w
              ELSE card
         ELSE w

\* winner_step with a trump always taking over, whatever trump is winning
winner_step_last_trump(w, card) ==
    IF order(card) > order(w) /\ card.suit = w.suit THEN card
    ELSE IF ato[card] THEN card
    ELSE w

\* the body of winner_card's loop: the winning card after looking at card
winner_step(w, card) ==
    IF order(card) > order(w) /\ card.suit = w.suit THEN card
    ELSE IF ato[card]
         THEN IF ato[w]
              THEN IF order(card) > order(w) THEN card ELSE w
              ELSE card
         ELSE w

RECURSIVE winner_scan(_, _, _)
winner_scan(t, i, w) ==
    IF i > Len(t) THEN w ELSE winner_scan(t, i + 1, winner_step(w, t[i]))

\* West.winner_card
winner_card(t) == winner_scan(t, 1, t[1])

\* West.winner_team
winner_team(t) == owner[winner_card(t)]

\* ---------------------------------------------------------------- AI selection
\* the table scan of ai_select: the same comparison, but the winning card it
\* starts from may be the placeholder
ai_step(w, card) ==
    IF order(card) > order(w) /\ card.suit = w.suit THEN card
    ELSE IF card_ato(card)
         THEN IF card_ato(w)
              THEN IF order(card) > order(w) THEN card ELSE w
              ELSE card
         ELSE w

RECURSIVE ai_scan(_, _, _)
ai_scan(t, i, w) ==
    IF i > Len(t) THEN w ELSE ai_scan(t, i + 1, ai_step(w, t[i]))

\* ai_select: the provisional winner and the suit it fixes
ai_first(t) == IF t # <<>> THEN t[1] ELSE Placeholder

ai_suit(t) == ai_first(t).suit

\* ai_select: winning_card after the scan of the table
ai_winning_card(t) == ai_scan(t, 1, ai_first(t))

\* a for loop that takes the first element satisfying a test and breaks:
\* the element taken, or None when the loop ends without taking one
first_below(s, w) ==
    LET I == {i \in 1..Len(s) : order(s[i]) < order(w)}
    IN  IF I = {} THEN None ELSE s[CHOOSE i \in I : \A j \in I : i <= j]

first_above(s, w) ==
    LET I == {i \in 1..Len(s) : order(s[i]) > order(w)}
    IN  IF I = {} THEN None ELSE s[CHOOSE i \in I : \A j \in I : i <= j]

\* a descending scan in place of the ascending one: the highest card of the
\* suit below, respectively above, the winning card
last_below(s, w) ==
    LET I == {i \in 1..Len(s) : order(s[i]) < order(w)}
    IN  IF I = {} THEN None ELSE s[CHOOSE i \in I : \A j \in I : i >= j]

last_above(s, w) ==
    LET I == {i \in 1..Len(s) : order(s[i]) > order(w)}
    IN  IF I = {} THEN None ELSE s[CHOOSE i \in I : \A j \in I : i >= j]

sm_card_highest_below(hand, suit, w) == last_below(get_suit(hand, suit), w)

gr_card_highest_above(hand, suit, w) == last_above(get_suit(hand, suit), w)

\* ai_select: sm_card and gr_card
sm_card(hand, suit, w) == first_below(get_suit(hand, suit), w)

gr_card(hand, suit, w) == first_above(get_suit(hand, suit), w)

\* ai_follow without the test that the winning card is not the teammate's
ai_follow_ignore_teammate(self, hand, suit, w) ==
    LET gr == gr_card(hand, suit, w)
        sm == sm_card(hand, suit, w)
    IN  IF gr # None /\ gr.suit = w.suit
        THEN gr
        ELSE IF sm # None THEN sm ELSE gr

\* ai_select, the branch taken when the player has the suit: the card passed
\* to self.cards.remove (None when neither gr_card nor sm_card was found)
ai_follow(self, hand, suit, w) ==
    LET gr == gr_card(hand, suit, w)
        sm == sm_card(hand, suit, w)
    IN  IF gr # None /\ card_owner(w, self) # teammate[self] /\ gr.suit = w.suit
        THEN gr
        ELSE IF sm # None THEN sm ELSE gr

\* ai_discard without the break at a trump: the tracked card of the whole hand
RECURSIVE ai_discard_never_trumps(_, _, _, _, _)
ai_discard_never_trumps(self, hand, w, i, smallest) ==
    IF i > Len(hand) THEN smallest
    ELSE LET card == hand[i]
             tracked ==
                 IF order(card) <= order(smallest)
                 THEN IF order(card) = order(smallest)
                      THEN IF Len(get_suit(hand, card.suit))
                                >= Len(get_suit(hand, smallest.suit))
                           THEN card ELSE smallest
                      ELSE card
                 ELSE smallest
         IN  ai_discard_never_trumps(self, hand, w, i + 1, tracked)

\* ai_discard preferring, among cards of equal order, the shorter suit
RECURSIVE ai_discard_short_suit(_, _, _, _, _)
ai_discard_short_suit(self, hand, w, i, smallest) ==
    IF i > Len(hand) THEN smallest
    ELSE LET card == hand[i]
             tracked ==
                 IF order(card) <= order(smallest)
                 THEN IF order(card) = order(smallest)
                      THEN IF Len(get_suit(hand, card.suit))
                                <= Len(get_suit(hand, smallest.suit))
                           THEN card ELSE smallest
                      ELSE card
                 ELSE smallest
         IN  IF card_ato(card) /\ card_owner(w, self) # teammate[self]
             THEN IF card.suit = w.suit
                  THEN IF order(card) > order(w)
                       THEN card
                       ELSE ai_discard_short_suit(self, hand, w, i + 1, tracked)
                  ELSE card
             ELSE ai_discard_short_suit(self, hand, w, i + 1, tracked)

\* ai_select, the loop over the whole hand: smallest_card after the loop,
\* entered at index i with the smallest card tracked so far
RECURSIVE ai_discard(_, _, _, _, _)
ai_discard(self, hand, w, i, smallest) ==
    IF i > Len(hand) THEN smallest
    ELSE LET card == hand[i]
             tracked ==
                 IF order(card) <= order(smallest)
                 THEN IF order(card) = order(smallest)
                      THEN IF Len(get_suit(hand, card.suit))
                                >= Len(get_suit(hand, smallest.suit))
                           THEN card ELSE smallest
                      ELSE card
                 ELSE smallest
         IN  IF card_ato(card) /\ card_owner(w, self) # teammate[self]
             THEN IF card.suit = w.suit
                  THEN IF order(card) > order(w)
                       THEN card
                       ELSE ai_discard(self, hand, w, i + 1, tracked)
                  ELSE card
             ELSE ai_discard(self, hand, w, i + 1, tracked)

\* Player.ai_select: the card handed to self.cards.remove
ai_select(self, hand, t) ==
    LET suit == ai_suit(t)
        w    == ai_winning_card(t)
    IN  IF has(hand, suit)
        THEN ai_follow(self, hand, suit, w)
        ELSE ai_discard(self, hand, w, 1, hand[1])

\* West.trans: the suit letter of the input line to the suit
West_trans == [H |-> HEARTS, S |-> SPADES, D |-> DIAMONDS, C |-> CLUBS]

\* Player.player_select: the cards a human can end up playing: the input loop
\* is left only with a card that get_card found in the hand
player_select(hand) ==
    {get_card(hand, DeckRanks[i], West_trans[l]) :
        i \in 1..NumRanks, l \in DOMAIN West_trans} \ {None}

\* ---------------------------------------------------------------- the match
\* the round counter at which start finds no card left (14 in the program)
LastRound == HandSize + 1

\* player_turn: the ato flags after the human played played_card from a full hand
set_trump(played_card) ==
    [c \in Cards |-> IF c.suit = played_card.suit THEN TRUE ELSE ato[c]]

\* trump_after with the length tested after the card left the hand
trump_after_removal(hand, played_card) ==
    IF Len(remove(hand, played_card)) = HandSize THEN set_trump(played_card) ELSE ato

\* trump_after without the test of the hand's length
trump_after_every_play(hand, played_card) == set_trump(played_card)

\* player_turn: the human branch sets the trump when the hand is still full
trump_after(hand, played_card) ==
    IF Len(hand) = HandSize THEN set_trump(played_card) ELSE ato

\* start: the list players, each entry a player and its ai flag
players_list ==
    << [player |-> 1, ai |-> FALSE],
       [player |-> 2, ai |-> TRUE],
       [player |-> teammate[1], ai |-> TRUE],
       [player |-> teammate[2], ai |-> TRUE] >>

\* turn_order without the rotation
turn_order_unrotated(n) == players_list

\* start: players[turns:] + players[:turns]
turn_order(n) ==
    SubSeq(players_list, n + 1, Len(players_list)) \o SubSeq(players_list, 1, n)

\* winning_team testing player_2 where the program tests player_1's teammate
winning_team_adjacent(p) == IF p \in {1, 2} THEN 1 ELSE 2

\* start: the partnership credited for a round won by player p
winning_team(p) == IF p \in {1, teammate[1]} THEN 1 ELSE 2

\* start: what is printed when the match completes
declare(t1, t2) ==
    IF t1 > t2 THEN "team1"
    ELSE IF t2 > t2 THEN "team2"
    ELSE "tie"

\* the player each card of the deck d is dealt to
dealt_to(d) ==
    [c \in Cards |-> CHOOSE p \in Players : contains(deal(d, p), c)]

Init ==
    \E seed \in 0..MaxSeed :
        /\ deck = get_deck(seed)
        /\ cards = [p \in Players |-> deal(deck, p)]
        /\ owner = dealt_to(deck)
        /\ ato = [c \in Cards |-> FALSE]
        /\ teammate = [p \in Players |-> prepare_teammate(p)]
        /\ t1_points = 0
        /\ t2_points = 0
        /\ t_win = 1
        /\ game_r = 1
        /\ table = <<>>
        /\ turns = 0
        /\ step = 0
        /\ pc = "loop"
        /\ declared = "none"
        /\ played = <<>>
        /\ ret = None

\* BeginRound with the table created once, before the loop
BeginRound_keep_table ==
    /\ pc = "loop"
    /\ game_r # LastRound
    /\ turns' = turn(t_win)
    /\ step' = 0
    /\ pc' = "turns"
    /\ UNCHANGED <<deck, cards, owner, ato, teammate, t1_points, t2_points,
                   t_win, game_r, table, declared, played, ret>>

\* start: the top of the loop while cards remain: a new table and turn order
BeginRound ==
    /\ pc = "loop"
    /\ game_r # LastRound
    /\ table' = <<>>
    /\ turns' = turn(t_win)
    /\ step' = 0
    /\ pc' = "turns"
    /\ UNCHANGED <<deck, cards, owner, ato, teammate, t1_points, t2_points,
                   t_win, game_r, declared, played, ret>>

\* start: the top of the loop when no card is left: print the result, break
Finish ==
    /\ pc = "loop"
    /\ game_r = LastRound
    /\ declared' = declare(t1_points, t2_points)
    /\ pc' = "done"
    /\ UNCHANGED <<deck, cards, owner, ato, teammate, t1_points, t2_points,
                   t_win, game_r, table, turns, step, played, ret>>

\* the entry of the turn order whose player_turn call is next
acting == turn_order(turns)[step + 1]

\* player_turn with ai False
HumanTurn ==
    /\ pc = "turns"
    /\ step < Len(players_list)
    /\ ~acting.ai
    /\ LET p == acting.player IN
       \E played_card \in player_select(cards[p]) :
           /\ cards' = [cards EXCEPT ![p] = remove(cards[p], played_card)]
           /\ ato' = trump_after(cards[p], played_card)
           /\ table' = Append(table, played_card)
           /\ played' = Append(played, played_card)
    /\ step' = step + 1
    /\ UNCHANGED <<deck, owner, teammate, t1_points, t2_points, t_win, game_r,
                   turns, pc, declared, ret>>

\* player_turn with ai True; list.remove raises ValueError for a card that
\* is not in the hand, and nothing catches it
AITurn ==
    /\ pc = "turns"
    /\ step < Len(players_list)
    /\ acting.ai
    /\ LET p == acting.player
           c == ai_select(p, cards[p], table)
       IN  IF contains(cards[p], c)
           THEN /\ cards' = [cards EXCEPT ![p] = remove(cards[p], c)]
                /\ table' = Append(table, c)
                /\ played' = Append(played, c)
                /\ step' = step + 1
                /\ UNCHANGED pc
           ELSE /\ pc' = "aborted"
                /\ UNCHANGED <<cards, table, played, step>>
    /\ UNCHANGED <<deck, owner, ato, teammate, t1_points, t2_points, t_win,
                   game_r, turns, declared, ret>>

\* start: after the four turns, credit the winner's partnership
Resolve ==
    /\ pc = "turns"
    /\ step = Len(players_list)
    /\ ret' = winner_card(table)
    /\ t_win' = winner_team(table)
    /\ t1_points' = IF winning_team(t_win') = 1 THEN t1_points + 1 ELSE t1_points
    /\ t2_points' = IF winning_team(t_win') = 1 THEN t2_points ELSE t2_points + 1
    /\ game_r' = game_r + 1
    /\ pc' = "loop"
    /\ UNCHANGED <<deck, cards, owner, ato, teammate, table, turns, step,
                   declared, played>>

Next == BeginRound \/ HumanTurn \/ AITurn \/ Resolve \/ Finish

Spec == Init /\ [][Next]_vars

\* ---------------------------------------------------------------- winner_card alone
\* the flags player_turn can leave: no trump yet, or one whole suit
TrumpFlags ==
    {[c \in Cards |-> FALSE]} \cup {[c \in Cards |-> c.suit = s] : s \in Suits}

\* every table of four distinct cards
Tables ==
    {t \in [1..Len(players_list) -> Cards] :
        \A i, j \in DOMAIN t : i # j => t[i] # t[j]}

InitWinner ==
    /\ deck = FreshDeck
    /\ cards = [p \in Players |-> <<>>]
    /\ owner = dealt_to(deck)
    /\ ato \in TrumpFlags
    /\ teammate = [p \in Players |-> prepare_teammate(p)]
    /\ t1_points = 0
    /\ t2_points = 0
    /\ t_win = 1
    /\ game_r = 1
    /\ table \in Tables
    /\ turns = 0
    /\ step = Len(players_list)
    /\ pc = "winner_call"
    /\ declared = "none"
    /\ played = <<>>
    /\ ret = None

\* a call of winner_card on the table
WinnerCall ==
    /\ pc = "winner_call"
    /\ ret' = winner_card(table)
    /\ pc' = "winner_done"
    /\ UNCHANGED <<deck, cards, owner, ato, teammate, t1_points, t2_points,
                   t_win, game_r, table, turns, step, declared, played>>

SpecWinner == InitWinner /\ [][WinnerCall]_vars

\* ---------------------------------------------------------------- properties
\* the cards of a sequence
Range(s) == {s[i] : i \in DOMAIN s}

\* the card of highest order in a non-empty set of cards of one suit
Highest(S) == CHOOSE c \in S : \A d \in S : order(d) <= order(c)

\* the reference result of a trick: the highest trump on the table if there
\* is one, otherwise the highest card of the suit led
Reference(t) ==
    LET trumps == {c \in Range(t) : ato[c]}
        led    == {c \in Range(t) : c.suit = t[1].suit}
    IN  IF trumps # {} THEN Highest(trumps) ELSE Highest(led)

\* C1: for every table of 4 distinct cards whose trump flags mark at most one
\* suit, winner_card returns the highest trump on the table if a trump is on
\* the table and otherwise the highest card of the suit led; the card it
\* returns is always of the suit led or a trump.
C1_WinnerIsReference ==
    pc = "winner_done" =>
        /\ ret = Reference(table)
        /\ (ret.suit = table[1].suit \/ ato[ret])

\* a trump played third beats a higher card of the suit led
C1_Witness ==
    /\ pc = "winner_done"
    /\ ~ato[table[1]]
    /\ ato[table[3]]
    /\ ret = table[3]
    /\ order(table[2]) > order(table[3])
    /\ table[2].suit = table[1].suit
    /\ table[4].suit \notin {table[1].suit, table[3].suit}

\* C2: when the match completes, team 1 is declared exactly when
\* t1_points > t2_points, team 2 exactly when t2_points > t1_points, and a
\* tie exactly when the two scores are equal.
C2_DeclaredIsHigherScore ==
    pc = "done" =>
        /\ declared = "team1" <=> t1_points > t2_points
        /\ declared = "team2" <=> t2_points > t1_points
        /\ declared = "tie" <=> t1_points = t2_points

\* C3: from every deal and for every sequence of valid human choices the
\* match never aborts before the match-complete state, and it reaches that
\* state only after all HandSize rounds were resolved, with the two scores
\* summing to HandSize.  (Every step of the match plays a card or advances
\* the round counter, so a run that never aborts ends in that state.)
C3_MatchCompletes ==
    /\ pc # "aborted"
    /\ pc = "done" => (game_r = LastRound /\ t1_points + t2_points = HandSize)

\* C4: whenever a player who is not leading holds a card of the suit led at
\* the moment it plays, the card it places on the table is of the suit led.
C4_SuitFollowed ==
    [][(/\ pc = "turns"
        /\ table # <<>>
        /\ Len(table') = Len(table) + 1
        /\ has(cards[owner[table'[Len(table')]]], table[1].suit))
       => table'[Len(table')].suit = table[1].suit]_vars

\* C8: in every state in which ai_select is about to be called it returns a
\* card of the acting player's hand; the state in which the player holds the
\* suit led but neither gr_card nor sm_card exists is never reached.
C8_AiSelectReturnsHeldCard ==
    (pc = "turns" /\ step < Len(players_list) /\ acting.ai) =>
        LET hand == cards[acting.player]
            suit == ai_suit(table)
            w    == ai_winning_card(table)
        IN  /\ hand # <<>>
            /\ contains(hand, ai_select(acting.player, hand, table))
            /\ ~(/\ has(hand, suit)
                 /\ gr_card(hand, suit, w) = None
                 /\ sm_card(hand, suit, w) = None)

\* the cards whose trump flag is set
TrumpSet == {c \in Cards : ato[c]}

\* the cards of one suit
SuitCards(s) == {c \in Cards : c.suit = s}

\* C5: the trump suit is the suit of the first card played: from right after
\* that play on, hence before the second player of round 1 selects, exactly
\* the deck cards of that suit are flagged; and while no card has been played
\* no card is flagged, so the only selection made without a trump suit is
\* that of the very first play.
C5_TrumpIsFirstCardSuit ==
    IF played = <<>>
    THEN TrumpSet = {}
    ELSE TrumpSet = SuitCards(played[1].suit)

\* the second player of round 1 is about to select and the trump is set
C5_Witness ==
    /\ pc = "turns"
    /\ game_r = 1
    /\ step = 1
    /\ Len(table) = 1
    /\ acting.player = 2
    /\ TrumpSet = SuitCards(table[1].suit)

\* C6: no card is flagged initially; in every state the flagged cards are no
\* card at all or exactly the cards of one suit; and once some card is
\* flagged the set of flagged cards never changes.
C6_TrumpImmutable ==
    /\ TrumpSet = {}
    /\ [](TrumpSet = {} \/ \E s \in Suits : TrumpSet = SuitCards(s))
    /\ [][TrumpSet # {} => TrumpSet' = TrumpSet]_vars

\* the human plays a card that is not a trump, from a hand that is no longer
\* full, and the trump suit stays what it was
C6_Witness ==
    /\ game_r > 1
    /\ pc = "turns"
    /\ table # <<>>
    /\ owner[table[Len(table)]] = 1
    /\ table[Len(table)] \notin TrumpSet
    /\ TrumpSet = SuitCards(played[1].suit)

\* the cards played in round r (1-based), as far as they were played
RoundCards(r) ==
    SubSeq(played, Len(players_list) * (r - 1) + 1,
           IF Len(players_list) * r <= Len(played)
           THEN Len(players_list) * r ELSE Len(played))

\* the seat after seat p in the cycle 1, 2, 3, 4
NextSeat(p) == (p % Len(players_list)) + 1

\* C7: round 1 is led by player 1; every later round is led by the player
\* who played the winning card of the round before; and within a round each
\* card is played by the seat following, in the cycle 1,2,3,4, the seat that
\* played the card before it.
C7_TurnOrder ==
    \A r \in 1..HandSize :
        LET rc == RoundCards(r) IN
        rc # <<>> =>
            /\ r = 1 => owner[rc[1]] = 1
            /\ r > 1 => owner[rc[1]] = owner[winner_card(RoundCards(r - 1))]
            /\ \A i \in 2..Len(rc) : owner[rc[i]] = NextSeat(owner[rc[i - 1]])

\* round 2 was led by player 3 and completed in the order 3, 4, 1, 2
C7_Witness ==
    /\ Len(played) = 2 * Len(players_list)
    /\ owner[played[Len(players_list) + 1]] = 3
    /\ owner[played[2 * Len(players_list)]] = 2

\* C9: a resolved round adds exactly 1 to the counter of the partnership
\* (players 1 and 3, or players 2 and 4) of the player who played the winning
\* card and leaves the other counter unchanged; no other step changes a
\* counter; and after k resolved rounds the counters sum to k.
C9_ScorePerRound ==
    /\ [](t1_points + t2_points = game_r - 1)
    /\ [][IF game_r' # game_r
          THEN LET w == owner[winner_card(table)] IN
               /\ w \in {1, 3} => t1_points' = t1_points + 1 /\ t2_points' = t2_points
               /\ w \in {2, 4} => t2_points' = t2_points + 1 /\ t1_points' = t1_points
          ELSE t1_points' = t1_points /\ t2_points' = t2_points]_vars

\* both partnerships have won a round, the last one through player 3
C9_Witness ==
    /\ pc = "loop"
    /\ t1_points >= 1
    /\ t2_points >= 1
    /\ t_win = 3

\* how often card c occurs in the sequence s
Count(s, c) == Cardinality({i \in DOMAIN s : s[i] = c})

\* C10: after the deal the four hands are pairwise disjoint sets of HandSize
\* cards whose union is the deck; in every state each card is in at most one
\* hand, is either in the hand of the player it was dealt to or was played
\* exactly once, and its owner is the player it was dealt to.
C10_CardConservation ==
    /\ played = <<>> =>
          /\ \A p \in Players : Cardinality(Range(cards[p])) = HandSize
          /\ \A p, q \in Players : p # q => Range(cards[p]) \cap Range(cards[q]) = {}
          /\ UNION {Range(cards[p]) : p \in Players} = Range(deck)
          /\ Cardinality(Range(deck)) = Len(SuitOrder) * NumRanks
    /\ \A c \in Cards :
          /\ \A p \in Players : p # owner[c] => Count(cards[p], c) = 0
          /\ Count(cards[owner[c]], c) + Count(played, c) = 1
          /\ contains(deal(deck, owner[c]), c)

\* the match completed: every card was played once and kept its owner
C10_Witness ==
    /\ pc = "done"
    /\ Len(played) = Len(deck)
    /\ \A p \in Players : cards[p] = <<>>
    /\ owner[played[Len(played)]] # 1

\* the owners of the cards of a sequence
Owners(s) == {owner[s[i]] : i \in DOMAIN s}

\* how many cards of the sequence s player p played
PlayedBy(s, p) == Cardinality({i \in DOMAIN s : owner[s[i]] = p})

C12_TeammatesFixed ==
    /\ [](/\ teammate[1] = 3
          /\ teammate[3] = 1
          /\ teammate[2] = 4
          /\ teammate[4] = 2)
    /\ [][teammate' = teammate]_vars

\* cards were played, tricks resolved and both scores updated, and the
\* teammates are still paired
C12_Witness ==
    /\ pc = "loop"
    /\ t1_points >= 1
    /\ t2_points >= 1
    /\ played # <<>>
    /\ \A p \in Players : teammate[teammate[p]] = p /\ teammate[p] # p

\* the orders in which the cards of the table can be taken
Orderings == Permutations(DOMAIN table)

\* the table t with its cards taken in the order q
Reordered(t, q) == [i \in DOMAIN t |-> t[q[i]]]

\* C13: for a fixed first card and fixed trump flags winner_card returns the
\* same card for every order of the other three cards; and when a trump is
\* on the table it returns the same card for every order of all four cards.
C13_WinnerOrderIndependent ==
    pc = "winner_done" =>
        /\ \A q \in Orderings :
              q[1] = 1 => winner_card(Reordered(table, q)) = ret
        /\ (\E i \in DOMAIN table : ato[table[i]]) =>
              \A q \in Orderings : winner_card(Reordered(table, q)) = ret

\* two trumps and two cards of the suit led: the higher trump, played
\* second, wins, and a lower trump is played after it
C13_Witness ==
    /\ pc = "winner_done"
    /\ ~ato[table[1]]
    /\ table[4].suit = table[1].suit
    /\ ato[table[2]]
    /\ ato[table[3]]
    /\ order(table[2]) > order(table[3])
    /\ ret = table[2]

\* the card of lowest order in a non-empty set of cards of one suit
Lowest(S) == CHOOSE c \in S : \A d \in S : order(c) <= order(d)

\* the cards of suit s in a hand
Held(hand, s) == {c \in Range(hand) : c.suit = s}

\* a step in which an AI player places a card on a table that is not empty
AiFollows ==
    /\ pc = "turns"
    /\ step < Len(players_list)
    /\ acting.ai
    /\ table # <<>>
    /\ Len(table') = Len(table) + 1

\* in such a step: the card placed, and before it the suit led, the current
\* winner of the partial table and the acting player's cards of the suit led
Placed == table'[Len(table')]
LeadSuit == table[1].suit
CurrentWinner == Reference(table)
HeldOfLead == Held(cards[acting.player], LeadSuit)
HeldAbove == {c \in HeldOfLead : order(c) > order(CurrentWinner)}
HeldBelow == {c \in HeldOfLead : order(c) < order(CurrentWinner)}

\* the same, read off the state after the step: the table before the last
\* card, its winner, and the hand the last card was played from
TableBefore == SubSeq(table, 1, Len(table) - 1)
LastCard == table[Len(table)]
LastPlayer == owner[LastCard]
WinnerBefore == Reference(TableBefore)
AfterAiFollows ==
    /\ pc = "turns"
    /\ Len(table) >= 2
    /\ LastPlayer # 1

\* C14: when an AI player holds the suit led, the current winner is a card of
\* the suit led that is not its teammate's, and it holds a card of the suit
\* led of higher order than the winner, it plays the lowest card of the suit
\* led in its hand whose order is higher than the winner's.
C14_PlaysLowestWinningCard ==
    [][(/\ AiFollows
        /\ CurrentWinner.suit = LeadSuit
        /\ owner[CurrentWinner] # teammate[acting.player]
        /\ HeldAbove # {})
       => Placed = Lowest(HeldAbove)]_vars

\* an AI player beat an opponent's winning card of the suit led and still
\* holds a higher card of that suit
C14_Witness ==
    /\ AfterAiFollows
    /\ WinnerBefore.suit = TableBefore[1].suit
    /\ owner[WinnerBefore] # teammate[LastPlayer]
    /\ LastCard.suit = WinnerBefore.suit
    /\ order(LastCard) > order(WinnerBefore)
    /\ \E d \in Held(cards[LastPlayer], LastCard.suit) : order(d) > order(LastCard)

\* C15: when an AI player holds the suit led, the current winner is its
\* teammate's and it holds a card of the suit led of lower order than the
\* winner, it plays a card of the suit led of lower order than the winner,
\* and the teammate's card is still the winner afterwards.
C15_NeverOvertakesTeammate ==
    [][(/\ AiFollows
        /\ owner[CurrentWinner] = teammate[acting.player]
        /\ HeldBelow # {})
       => /\ Placed.suit = LeadSuit
          /\ order(Placed) < order(CurrentWinner)
          /\ Reference(table') = CurrentWinner]_vars

\* an AI player played under its teammate's winning card although it holds
\* a card that would have beaten it
C15_Witness ==
    /\ AfterAiFollows
    /\ owner[WinnerBefore] = teammate[LastPlayer]
    /\ WinnerBefore.suit = TableBefore[1].suit
    /\ LastCard.suit = WinnerBefore.suit
    /\ order(LastCard) < order(WinnerBefore)
    /\ \E d \in Held(cards[LastPlayer], LastCard.suit) : order(d) > order(WinnerBefore)

\* an AI step in which gr_card is not played: the winner is the teammate's,
\* or the player holds no higher card of the suit led that is also of the
\* winner's suit
GrCardNotPlayed ==
    \/ owner[CurrentWinner] = teammate[acting.player]
    \/ HeldAbove = {}
    \/ CurrentWinner.suit # LeadSuit

\* C16 as stated: when an AI player that holds the suit led does not play
\* gr_card and holds a card of the suit led whose order does not exceed the
\* winner's, it plays the highest card of the suit led in its hand whose
\* order is at most the winner's.
C16_PlaysHighestNotAbove ==
    [][(/\ AiFollows
        /\ GrCardNotPlayed
        /\ \E c \in HeldOfLead : order(c) <= order(CurrentWinner))
       => Placed = Highest({c \in HeldOfLead : order(c) <= order(CurrentWinner)})]_vars

\* C16 (amended): when an AI player that holds the suit led does not play
\* gr_card and holds a card of the suit led whose order is strictly below
\* the winner's, it plays the lowest card of the suit led in its hand.
C16_PlaysLowestBelow ==
    [][(/\ AiFollows
        /\ GrCardNotPlayed
        /\ HeldBelow # {})
       => /\ Placed = Lowest(HeldBelow)
          /\ Placed = Lowest(HeldOfLead)]_vars

\* an AI player that could not beat the winner played its lowest card of the
\* suit led and still holds a higher one that is also below the winner
C16_Witness ==
    /\ AfterAiFollows
    /\ LastCard.suit = TableBefore[1].suit
    /\ order(LastCard) < order(WinnerBefore)
    /\ \A d \in Held(cards[LastPlayer], LastCard.suit) :
          order(d) < order(WinnerBefore)
    /\ \E d \in Held(cards[LastPlayer], LastCard.suit) :
          order(LastCard) < order(d)

\* the trumps of a hand, and the first card of a set in the hand's list order
HeldTrumps(hand) == {c \in Range(hand) : ato[c]}

FirstOf(hand, S) ==
    hand[CHOOSE i \in DOMAIN hand :
            hand[i] \in S /\ \A j \in 1..(i - 1) : hand[j] \notin S]

\* the cards of lowest order in a hand
MinOrder(hand) == {c \in Range(hand) : \A d \in Range(hand) : order(c) <= order(d)}

\* an AI step onto a non-empty table by a player without a card of the suit
\* led, holding a trump, the winner not being its teammate's
AiCanTrump ==
    /\ AiFollows
    /\ HeldOfLead = {}
    /\ HeldTrumps(cards[acting.player]) # {}
    /\ owner[CurrentWinner] # teammate[acting.player]

\* the trumps held that are of higher order than the current winner
TrumpsAbove ==
    {c \in HeldTrumps(cards[acting.player]) : order(c) > order(CurrentWinner)}

\* C17 as stated: such a player plays a trump: one of higher order than the
\* winner when the winner is a trump and it holds such a trump, otherwise
\* the first trump of its hand in list order.
C17_AlwaysTrumps ==
    [][AiCanTrump =>
          /\ ato[Placed]
          /\ IF ato[CurrentWinner] /\ TrumpsAbove # {}
             THEN order(Placed) > order(CurrentWinner)
             ELSE Placed = FirstOf(cards[acting.player],
                                   HeldTrumps(cards[acting.player]))]_vars

\* C17 (amended): such a player plays the first trump of its hand in list
\* order when the winner is not a trump; a trump of higher order than the
\* winner (the first such in list order) when the winner is a trump and it
\* holds one; and, when the winner is a trump and it holds no higher trump,
\* a card of lowest order of its whole hand, which need not be a trump.
C17_TrumpsWhenItCanWin ==
    [][AiCanTrump =>
          IF ~ato[CurrentWinner]
          THEN Placed = FirstOf(cards[acting.player],
                                HeldTrumps(cards[acting.player]))
          ELSE IF TrumpsAbove # {}
               THEN /\ ato[Placed]
                    /\ order(Placed) > order(CurrentWinner)
                    /\ Placed = FirstOf(cards[acting.player], TrumpsAbove)
               ELSE Placed \in MinOrder(cards[acting.player])]_vars

\* an AI player without the suit led, facing an opponent's winning trump and
\* holding only lower trumps, discarded a card that is no trump
C17_Witness ==
    /\ AfterAiFollows
    /\ ato[WinnerBefore]
    /\ owner[WinnerBefore] # teammate[LastPlayer]
    /\ LastCard.suit # TableBefore[1].suit
    /\ Held(cards[LastPlayer], TableBefore[1].suit) = {}
    /\ ~ato[LastCard]
    /\ HeldTrumps(cards[LastPlayer]) # {}
    /\ \A c \in HeldTrumps(cards[LastPlayer]) : order(c) < order(WinnerBefore)

\* C18: when an AI player holds no card of the suit led and either the
\* winner is its teammate's or it holds no trump, the card it plays has the
\* lowest order of its whole hand, and no card of that order in the hand is
\* of a suit of which the hand has more cards.
C18_DiscardsLowestOfLongestSuit ==
    [][(/\ AiFollows
        /\ HeldOfLead = {}
        /\ \/ owner[CurrentWinner] = teammate[acting.player]
           \/ HeldTrumps(cards[acting.player]) = {})
       => /\ Placed \in MinOrder(cards[acting.player])
          /\ \A d \in MinOrder(cards[acting.player]) :
                Cardinality(Held(cards[acting.player], Placed.suit))
                   >= Cardinality(Held(cards[acting.player], d.suit))]_vars

\* an AI player without the suit led and without a trump discarded a card of
\* its lowest order and kept a card of the same order of a shorter suit
C18_Witness ==
    /\ AfterAiFollows
    /\ LastCard.suit # TableBefore[1].suit
    /\ Held(cards[LastPlayer], TableBefore[1].suit) = {}
    /\ ~ato[LastCard]
    /\ HeldTrumps(cards[LastPlayer]) = {}
    /\ \A d \in Range(cards[LastPlayer]) : order(LastCard) <= order(d)
    /\ \E d \in Range(cards[LastPlayer]) :
          /\ order(d) = order(LastCard)
          /\ Cardinality(Held(cards[LastPlayer], d.suit))
                < Cardinality(Held(cards[LastPlayer], LastCard.suit)) + 1

\* a step in which an AI player places the first card of a round
AiLeads ==
    /\ pc = "turns"
    /\ step < Len(players_list)
    /\ acting.ai
    /\ table = <<>>
    /\ Len(table') = 1

\* C19: when an AI player leads a round, the card it plays is the one the
\* rule for the whole hand gives, whether or not it holds hearts: the first
\* trump of its hand in list order when it holds a trump, otherwise a card of
\* the lowest order of its hand whose suit is the longest among the cards of
\* that order; and the card is never the placeholder.
C19_LeadsByWholeHandRule ==
    [][AiLeads =>
          /\ Placed # Placeholder
          /\ IF HeldTrumps(cards[acting.player]) # {}
             THEN Placed = FirstOf(cards[acting.player],
                                   HeldTrumps(cards[acting.player]))
             ELSE /\ Placed \in MinOrder(cards[acting.player])
                  /\ \A d \in MinOrder(cards[acting.player]) :
                        Cardinality(Held(cards[acting.player], Placed.suit))
                           >= Cardinality(Held(cards[acting.player], d.suit))]_vars

====
